---- MODULE Spec2Model ----
(***************************************************************************)
(* Model of CMPE13_Lab8.X/Tree.c: the binary tree builder (TreeCreate),    *)
(* the Morse decoder (MorseInit, MorseDecode) and the 100Hz button event   *)
(* detector (MorseCheckEvents).                                            *)
(*                                                                         *)
(* The headers Tree.h, Morse.h, Buttons.h and BOARD.h are not part of the  *)
(* sources; the values they define (event lengths, status codes) are taken *)
(* from the documentation and are marked as such where they are defined.   *)
(***************************************************************************)
EXTENDS Integers, Sequences, FiniteSets, TLC

(***************************************************************************)
(* Bounds of the model.                                                    *)
(***************************************************************************)
\* longest button hold that is explored: the guard of a tick with the
\* button held down stops `increment` from growing past it
MaxHold == 60
\* the history counter of button-up ticks saturates here
MaxQuiet == 205

(***************************************************************************)
(* Event lengths of Morse.h, in ticks of the 100Hz clock (doc comment of   *)
(* MorseCheckEvents: dash >= 0.5s, letters >= 1s, words >= 2s).            *)
(***************************************************************************)
MORSE_EVENT_LENGTH_DOWN_DASH == 50
MORSE_EVENT_LENGTH_UP_INTER_LETTER == 100
MORSE_EVENT_LENGTH_UP_INTER_WORD == 200

VARIABLES
    \* ---- MorseCheckEvents ----
    Mstate,      \* enum { WAITING, DOT, DASH, INTER_LETTER } Mstate
    increment,   \* int increment
    first,       \* uint8_t first: the button event of the last call
    event,       \* the MorseEvent returned by the last call
    btn4Down,    \* the button source: is BTN4 down
    \* history of MorseCheckEvents (not read by the program)
    Mprev,       \* Mstate at the entry of the last call
    count,       \* increment right after `increment++` in the last call
    pressFrom,   \* Mstate at the entry of the call that saw the last 4DOWN
    hold,        \* BUTTON_EVENT_NONE ticks since the last 4DOWN, while down
    gap,         \* BUTTON_EVENT_NONE ticks since the last 4UP, while up
    relEvent,    \* the MorseEvent returned on the tick of the last 4UP
    words,       \* MORSE_EVENT_INTER_WORDs returned since the last edge
    calls,       \* has MorseCheckEvents been called
    letters,     \* MORSE_EVENT_INTER_LETTERs returned since the last edge
    sinceUp,     \* events other than NONE returned after the last 4UP tick
    pressCount,  \* count on the tick of the last 4DOWN
    pressEvent,  \* the MorseEvent returned on the tick of the last 4DOWN
    \* ---- TreeCreate, MorseInit, MorseDecode ----
    nodes,       \* the heap: the Nodes malloc()ed so far, in allocation order
    chartree,    \* Node *chartree
    temp,        \* Node *temp: the decoding cursor
    ret,         \* the value returned by the last MorseInit / MorseDecode
    fault,       \* the program has trapped on an invalid pointer
    \* history of the decoder (not read by the program)
    last,        \* the last operation called
    in,          \* the argument of the last MorseDecode
    initRet,     \* the value MorseInit returned
    mallocFails, \* the number of malloc() calls of MorseInit that failed
    tempOld,     \* temp at the entry of the last MorseDecode
    path,        \* the dots and dashes accepted since temp was last the root
    pathOld,     \* path at the entry of the last MorseDecode
    \* ---- a call of TreeCreate on its own ----
    tLevel,      \* the argument level
    tData,       \* the array the argument data points to
    tFree,       \* the number of nodes the heap has room for
    tStray,      \* the byte behind the end of the array
    tCalled,     \* has TreeCreate returned
    tTree,       \* the pointer TreeCreate returned
    tNodes,      \* the heap after the call
    tReads,      \* the offsets of data the call read
    tFails       \* the number of malloc() calls that failed

evars == <<Mstate, increment, first, event, btn4Down,
           Mprev, count, pressFrom, hold, gap, relEvent, words, calls,
           letters, sinceUp, pressCount, pressEvent>>

dvars == <<nodes, chartree, temp, ret, fault,
           last, in, initRet, mallocFails, tempOld, path, pathOld>>

tvars == <<tLevel, tData, tFree, tStray, tCalled, tTree, tNodes, tReads, tFails>>

vars == <<evars, dvars, tvars>>

(***************************************************************************)
(* The button source (Buttons.h): one event per call, BTN4 only.  The      *)
(* buttons are unpressed at startup and down/up edges alternate.           *)
(***************************************************************************)
ButtonsCheckEvents(down) ==
    IF down THEN {"BUTTON_EVENT_NONE", "BUTTON_EVENT_4UP"}
            ELSE {"BUTTON_EVENT_NONE", "BUTTON_EVENT_4DOWN"}

(***************************************************************************)
(* MorseCheckEvents, one case of the switch each.  `inc` is increment      *)
(* after the `increment++` of the call, `f` the button event.  The result  *)
(* is the new Mstate, the new increment and the returned MorseEvent.       *)
(***************************************************************************)
\* CaseWAITING as it would be without `increment = 0`
CaseWAITING_keep(inc, f) ==
    [Mstate    |-> IF f = "BUTTON_EVENT_4DOWN" THEN "DOT" ELSE "WAITING",
     increment |-> inc,
     ret       |-> "MORSE_EVENT_NONE"]

CaseWAITING(inc, f) ==
    [Mstate    |-> IF f = "BUTTON_EVENT_4DOWN" THEN "DOT" ELSE "WAITING",
     increment |-> 0,
     ret       |-> "MORSE_EVENT_NONE"]

\* CaseDOT as it would be with >= for > in the dash test
CaseDOT_ge(inc, f) ==
    IF f = "BUTTON_EVENT_4UP"
    THEN [Mstate |-> "INTER_LETTER", increment |-> 0, ret |-> "MORSE_EVENT_DOT"]
    ELSE [Mstate    |-> IF inc >= MORSE_EVENT_LENGTH_DOWN_DASH
                        THEN "DASH" ELSE "DOT",
          increment |-> inc,
          ret       |-> "MORSE_EVENT_NONE"]

CaseDOT(inc, f) ==
    IF f = "BUTTON_EVENT_4UP"
    THEN [Mstate |-> "INTER_LETTER", increment |-> 0, ret |-> "MORSE_EVENT_DOT"]
    ELSE [Mstate    |-> IF inc > MORSE_EVENT_LENGTH_DOWN_DASH
                        THEN "DASH" ELSE "DOT",
          increment |-> inc,
          ret       |-> "MORSE_EVENT_NONE"]

CaseDASH(inc, f) ==
    IF f = "BUTTON_EVENT_4UP"
    THEN [Mstate |-> "INTER_LETTER", increment |-> 0, ret |-> "MORSE_EVENT_DASH"]
    ELSE [Mstate |-> "DASH", increment |-> inc, ret |-> "MORSE_EVENT_NONE"]

\* CaseINTER_LETTER as it would be if the word gap did not leave the state
CaseINTER_LETTER_stay(inc, f) ==
    IF inc >= MORSE_EVENT_LENGTH_UP_INTER_LETTER
    THEN [Mstate |-> "INTER_LETTER", increment |-> inc,
          ret |-> "MORSE_EVENT_INTER_WORD"]
    ELSE IF f = "BUTTON_EVENT_4DOWN"
    THEN [Mstate |-> "DOT", increment |-> 0, ret |-> "MORSE_EVENT_NONE"]
    ELSE [Mstate |-> "INTER_LETTER", increment |-> inc,
          ret |-> "MORSE_EVENT_NONE"]

\* CaseINTER_LETTER as it would be if every press ended the character
CaseINTER_LETTER_endChar(inc, f) ==
    IF inc >= MORSE_EVENT_LENGTH_UP_INTER_LETTER
    THEN [Mstate |-> "WAITING", increment |-> inc,
          ret |-> "MORSE_EVENT_INTER_WORD"]
    ELSE IF f = "BUTTON_EVENT_4DOWN"
    THEN [Mstate |-> "DOT", increment |-> 0,
          ret |-> "MORSE_EVENT_INTER_LETTER"]
    ELSE [Mstate |-> "INTER_LETTER", increment |-> inc,
          ret |-> "MORSE_EVENT_NONE"]

CaseINTER_LETTER(inc, f) ==
    IF inc >= MORSE_EVENT_LENGTH_UP_INTER_LETTER
    THEN [Mstate |-> "WAITING", increment |-> inc,
          ret |-> "MORSE_EVENT_INTER_WORD"]
    ELSE IF f = "BUTTON_EVENT_4DOWN"
    THEN IF inc >= MORSE_EVENT_LENGTH_UP_INTER_LETTER
         THEN [Mstate |-> "DOT", increment |-> 0,
               ret |-> "MORSE_EVENT_INTER_LETTER"]
         ELSE [Mstate |-> "DOT", increment |-> 0, ret |-> "MORSE_EVENT_NONE"]
    ELSE [Mstate |-> "INTER_LETTER", increment |-> inc,
          ret |-> "MORSE_EVENT_NONE"]

CheckEvents(st, inc, f) ==
    CASE st = "WAITING"      -> CaseWAITING(inc, f)
      [] st = "DOT"          -> CaseDOT(inc, f)
      [] st = "DASH"         -> CaseDASH(inc, f)
      [] st = "INTER_LETTER" -> CaseINTER_LETTER(inc, f)

\* one call of MorseCheckEvents(), with the button event f of this tick
MorseCheckEvents(f) ==
    LET r == CheckEvents(Mstate, increment + 1, f) IN
    /\ f \in ButtonsCheckEvents(btn4Down)
    \* the explored length of a hold is bounded
    /\ ~(btn4Down /\ f = "BUTTON_EVENT_NONE" /\ hold >= MaxHold)
    /\ first' = f
    /\ Mstate' = r.Mstate
    /\ increment' = r.increment
    /\ event' = r.ret
    /\ btn4Down' = CASE f = "BUTTON_EVENT_4DOWN" -> TRUE
                     [] f = "BUTTON_EVENT_4UP"   -> FALSE
                     [] OTHER                    -> btn4Down
    /\ Mprev' = Mstate
    /\ count' = increment + 1
    /\ calls' = TRUE
    /\ pressFrom' = IF f = "BUTTON_EVENT_4DOWN" THEN Mstate ELSE pressFrom
    /\ hold' = CASE f = "BUTTON_EVENT_4DOWN" -> 0
                 [] f = "BUTTON_EVENT_4UP"   -> hold
                 [] btn4Down                 -> hold + 1
                 [] OTHER                    -> 0
    /\ gap' = CASE f = "BUTTON_EVENT_4DOWN" -> 0
                [] f = "BUTTON_EVENT_4UP"   -> 0
                [] btn4Down                 -> 0
                [] OTHER -> IF gap < MaxQuiet THEN gap + 1 ELSE gap
    /\ relEvent' = CASE f = "BUTTON_EVENT_4UP"   -> r.ret
                     [] f = "BUTTON_EVENT_4DOWN" -> "none"
                     [] OTHER                    -> relEvent
    /\ words' = IF f = "BUTTON_EVENT_NONE"
                THEN words + (IF r.ret = "MORSE_EVENT_INTER_WORD" THEN 1 ELSE 0)
                ELSE 0
    /\ letters' = IF f = "BUTTON_EVENT_NONE"
                  THEN letters + (IF r.ret = "MORSE_EVENT_INTER_LETTER" THEN 1 ELSE 0)
                  ELSE IF r.ret = "MORSE_EVENT_INTER_LETTER" THEN 1 ELSE 0
    /\ sinceUp' = IF f = "BUTTON_EVENT_4UP" THEN 0
                  ELSE IF r.ret # "MORSE_EVENT_NONE" /\ sinceUp = 0 THEN 1
                  ELSE sinceUp
    /\ pressCount' = IF f = "BUTTON_EVENT_4DOWN" THEN increment + 1 ELSE pressCount
    /\ pressEvent' = IF f = "BUTTON_EVENT_4DOWN" THEN r.ret ELSE pressEvent
    /\ UNCHANGED <<dvars, tvars>>

(***************************************************************************)
(* Tree.c, TreeCreate: nodes on the heap.                                  *)
(***************************************************************************)
\* bound: the heap holds 0..MaxHeap nodes before malloc() returns NULL
MaxHeap == 128
\* the values a read of memory the program does not own may yield
StrayChars == {0, 1, 65}

NULL == 0
\* a pointer that is neither NULL nor a Node of the heap
WILD == -1
\* the outcome of a load that traps
TRAP == -2
\* MorseInit / MorseDecode has not returned
NoReturn == -3

\* BOARD.h: enum { SIZE_ERROR = -1, STANDARD_ERROR, SUCCESS }
STANDARD_ERROR == 0
SUCCESS == 1

\* the memory TreeCreate works on: the nodes allocated so far, the number
\* of allocations the heap can still satisfy, the number of failed
\* allocations, the byte found behind the end of the data array, and the
\* offsets of the data array read so far
Memory(free, stray) ==
    [nodes |-> <<>>, free |-> free, fails |-> 0, stray |-> stray, reads |-> {}]

\* malloc(sizeof (tree)): the next node of the heap, or NULL when the heap
\* is exhausted (nothing is ever freed).  The request is for the size of a
\* pointer, not of a Node; the block is taken to hold the three fields of
\* the node, as it does where the allocator rounds the request up.
malloc(mem) == IF mem.free = 0 THEN NULL ELSE Len(mem.nodes) + 1

\* *data, for data = array + off (off counted from 0): a read behind the
\* end of the array yields whatever byte is there
ReadData(data, off, mem) ==
    IF off < Len(data) THEN data[off + 1] ELSE mem.stray

RECURSIVE TreeCreate(_, _, _, _)

\* TreeCreate as it would be with the right subtree read from
\* data + (1 << level)
TreeCreate_shift(level, data, off, mem) ==
    LET tree == malloc(mem) IN
    IF tree = NULL
    THEN [ptr |-> NULL, mem |-> [mem EXCEPT !.fails = @ + 1]]
    ELSE LET m1 == [mem EXCEPT
                      !.free = @ - 1,
                      !.reads = @ \cup {off},
                      !.nodes = Append(@, [data       |-> ReadData(data, off, mem),
                                           leftChild  |-> NULL,
                                           rightChild |-> NULL])]
         IN IF level = 0
            THEN [ptr |-> tree, mem |-> m1]
            ELSE LET l == TreeCreate(level - 1, data, off + 1, m1)
                     r == TreeCreate(level - 1, data, off + 2 ^ level, l.mem)
                 IN [ptr |-> tree,
                     mem |-> [r.mem EXCEPT !.nodes[tree].leftChild = l.ptr,
                                           !.nodes[tree].rightChild = r.ptr]]

TreeCreate(level, data, off, mem) ==
    LET tree == malloc(mem) IN
    IF tree = NULL
    THEN [ptr |-> NULL, mem |-> [mem EXCEPT !.fails = @ + 1]]
    ELSE LET m1 == [mem EXCEPT
                      !.free = @ - 1,
                      !.reads = @ \cup {off},
                      !.nodes = Append(@, [data       |-> ReadData(data, off, mem),
                                           leftChild  |-> NULL,
                                           rightChild |-> NULL])]
         IN IF level = 0
            THEN [ptr |-> tree, mem |-> m1]
            ELSE LET l == TreeCreate(level - 1, data, off + 1, m1)
                     r == TreeCreate(level - 1, data, off + 2 ^ (level - 1), l.mem)
                 IN [ptr |-> tree,
                     mem |-> [r.mem EXCEPT !.nodes[tree].leftChild = l.ptr,
                                           !.nodes[tree].rightChild = r.ptr]]

(***************************************************************************)
(* Tree.c, the Morse decoder.                                              *)
(***************************************************************************)
\* char tree[63] of MorseInit, as ASCII codes ('\0' = 0)
MorseTable ==
    <<0, 69, 73, 83, 72, 53, 52, 86, 0, 51, 85, 70, 0, 0, 0, 0, 50,
      65, 82, 76, 0, 0, 0, 0, 0, 87, 80, 0, 0, 74, 0, 49,
      84, 78, 68, 66, 54, 0, 88, 0, 0, 75, 67, 0, 0, 89, 0, 0,
      77, 71, 90, 55, 0, 81, 0, 0, 79, 0, 56, 0, 0, 57, 48>>

\* the level MorseInit passes to TreeCreate
MorseLevel == 6

\* MorseInit(): the created tree, its memory and the returned status
MorseInit(free, stray) ==
    LET t == TreeCreate(MorseLevel, MorseTable, 0, Memory(free, stray)) IN
    [chartree |-> t.ptr,
     mem      |-> t.mem,
     ret      |-> IF t.ptr = NULL THEN STANDARD_ERROR ELSE SUCCESS]

CallMorseInit ==
    /\ ~fault
    /\ initRet = NoReturn     \* MorseInit is called once
    /\ \E free \in 0..MaxHeap, stray \in StrayChars :
         LET r == MorseInit(free, stray) IN
         /\ chartree' = r.chartree
         /\ nodes' = r.mem.nodes
         /\ temp' = IF r.chartree = NULL THEN temp ELSE r.chartree
         /\ ret' = r.ret
         /\ initRet' = r.ret
         /\ mallocFails' = r.mem.fails
    /\ last' = "MorseInit"
    /\ UNCHANGED <<fault, in, tempOld, path, pathOld>>
    /\ UNCHANGED <<evars, tvars>>

MorseChar == {"MORSE_CHAR_DOT", "MORSE_CHAR_DASH", "MORSE_CHAR_END_OF_CHAR",
              "MORSE_CHAR_DECODE_RESET"}

IsNode(p, heap) == p \in 1..Len(heap)

\* p->leftChild / p->rightChild: through a pointer that is not a Node the
\* load traps or yields an arbitrary pointer
LoadChild(p, side, heap) ==
    IF IsNode(p, heap) THEN {heap[p][side]} ELSE {TRAP, NULL, WILD}

\* p->data
LoadData(p, heap) ==
    IF IsNode(p, heap) THEN {heap[p].data} ELSE {TRAP} \cup StrayChars

Returns(tmp, r) == [temp |-> tmp, ret |-> r, fault |-> FALSE]
Traps(tmp) == [temp |-> tmp, ret |-> NoReturn, fault |-> TRUE]

\* MorseDecode as it would be if a refused DOT / DASH reset the cursor
MorseDecode_resetOnRefusal(sym, tmp, root, heap) ==
    CASE sym = "MORSE_CHAR_DOT" ->
           { IF c = TRAP THEN Traps(tmp)
             ELSE IF c = NULL THEN Returns(root, STANDARD_ERROR)
             ELSE Returns(c, SUCCESS) : c \in LoadChild(tmp, "leftChild", heap) }
      [] sym = "MORSE_CHAR_DASH" ->
           { IF c = TRAP THEN Traps(tmp)
             ELSE IF c = NULL THEN Returns(root, STANDARD_ERROR)
             ELSE Returns(c, SUCCESS) : c \in LoadChild(tmp, "rightChild", heap) }
      [] sym = "MORSE_CHAR_END_OF_CHAR" ->
           { IF d = TRAP THEN Traps(tmp) ELSE Returns(root, d) :
               d \in LoadData(tmp, heap) }
      [] sym = "MORSE_CHAR_DECODE_RESET" -> { Returns(root, SUCCESS) }
      [] OTHER -> { Returns(tmp, STANDARD_ERROR) }

\* MorseDecode as it would be if END_OF_CHAR reset the cursor before it
\* read the character
MorseDecode_resetBeforeRead(sym, tmp, root, heap) ==
    CASE sym = "MORSE_CHAR_DOT" ->
           { IF c = TRAP THEN Traps(tmp)
             ELSE IF c = NULL THEN Returns(tmp, STANDARD_ERROR)
             ELSE Returns(c, SUCCESS) : c \in LoadChild(tmp, "leftChild", heap) }
      [] sym = "MORSE_CHAR_DASH" ->
           { IF c = TRAP THEN Traps(tmp)
             ELSE IF c = NULL THEN Returns(tmp, STANDARD_ERROR)
             ELSE Returns(c, SUCCESS) : c \in LoadChild(tmp, "rightChild", heap) }
      [] sym = "MORSE_CHAR_END_OF_CHAR" ->
           { IF d = TRAP THEN Traps(tmp) ELSE Returns(root, d) :
               d \in LoadData(root, heap) }
      [] sym = "MORSE_CHAR_DECODE_RESET" -> { Returns(root, SUCCESS) }
      [] OTHER -> { Returns(tmp, STANDARD_ERROR) }

\* MorseDecode as it would be without the NULL tests of DOT and DASH
MorseDecode_noNullTest(sym, tmp, root, heap) ==
    CASE sym = "MORSE_CHAR_DOT" ->
           { IF c = TRAP THEN Traps(tmp) ELSE Returns(c, SUCCESS) :
               c \in LoadChild(tmp, "leftChild", heap) }
      [] sym = "MORSE_CHAR_DASH" ->
           { IF c = TRAP THEN Traps(tmp) ELSE Returns(c, SUCCESS) :
               c \in LoadChild(tmp, "rightChild", heap) }
      [] sym = "MORSE_CHAR_END_OF_CHAR" ->
           { IF d = TRAP THEN Traps(tmp) ELSE Returns(root, d) :
               d \in LoadData(tmp, heap) }
      [] sym = "MORSE_CHAR_DECODE_RESET" -> { Returns(root, SUCCESS) }
      [] OTHER -> { Returns(tmp, STANDARD_ERROR) }

\* MorseDecode(in): the possible outcomes (new temp, returned char)
MorseDecode(sym, tmp, root, heap) ==
    CASE sym = "MORSE_CHAR_DOT" ->
           { IF c = TRAP THEN Traps(tmp)
             ELSE IF c = NULL THEN Returns(tmp, STANDARD_ERROR)
             ELSE Returns(c, SUCCESS) : c \in LoadChild(tmp, "leftChild", heap) }
      [] sym = "MORSE_CHAR_DASH" ->
           { IF c = TRAP THEN Traps(tmp)
             ELSE IF c = NULL THEN Returns(tmp, STANDARD_ERROR)
             ELSE Returns(c, SUCCESS) : c \in LoadChild(tmp, "rightChild", heap) }
      [] sym = "MORSE_CHAR_END_OF_CHAR" ->
           { IF d = TRAP THEN Traps(tmp) ELSE Returns(root, d) :
               d \in LoadData(tmp, heap) }
      [] sym = "MORSE_CHAR_DECODE_RESET" -> { Returns(root, SUCCESS) }
      [] OTHER -> { Returns(tmp, STANDARD_ERROR) }

CallMorseDecode ==
    /\ ~fault
    /\ \E sym \in MorseChar \cup {"invalid"} :
         \E o \in MorseDecode(sym, temp, chartree, nodes) :
            /\ in' = sym
            /\ temp' = o.temp
            /\ ret' = o.ret
            /\ fault' = o.fault
            /\ path' = CASE o.fault -> path
                         [] sym \in {"MORSE_CHAR_DOT", "MORSE_CHAR_DASH"}
                            /\ o.ret = SUCCESS /\ IsNode(o.temp, nodes)
                              -> Append(path, sym)
                         [] sym \in {"MORSE_CHAR_END_OF_CHAR",
                                     "MORSE_CHAR_DECODE_RESET"} -> <<>>
                         [] OTHER -> path
    /\ tempOld' = temp
    /\ pathOld' = path
    /\ last' = "MorseDecode"
    /\ UNCHANGED <<nodes, chartree, initRet, mallocFails>>
    /\ UNCHANGED <<evars, tvars>>

InitEvents ==
    /\ Mstate = "WAITING"
    /\ increment = 0
    /\ first = "BUTTON_EVENT_NONE"
    /\ event = "none"
    /\ btn4Down = FALSE
    /\ Mprev = "WAITING"
    /\ count = 0
    /\ pressFrom = "none"
    /\ hold = 0
    /\ gap = 0
    /\ relEvent = "none"
    /\ words = 0
    /\ calls = FALSE
    /\ letters = 0
    /\ sinceUp = 0
    /\ pressCount = 0
    /\ pressEvent = "none"

\* the globals of the decoder are zero-initialised: no tree, no cursor
InitDecode ==
    /\ nodes = <<>>
    /\ chartree = NULL
    /\ temp = NULL
    /\ ret = NoReturn
    /\ fault = FALSE
    /\ last = "none"
    /\ in = "none"
    /\ initRet = NoReturn
    /\ mallocFails = 0
    /\ tempOld = NULL
    /\ path = <<>>
    /\ pathOld = <<>>

\* no call of TreeCreate on its own
InitTreeIdle ==
    /\ tLevel = 0
    /\ tData = <<>>
    /\ tFree = 0
    /\ tStray = 0
    /\ tCalled = FALSE
    /\ tTree = NULL
    /\ tNodes = <<>>
    /\ tReads = {}
    /\ tFails = 0

Init == InitEvents /\ InitDecode /\ InitTreeIdle

(***************************************************************************)
(* TreeCreate on its own: the arguments are drawn at the start, one call.  *)
(***************************************************************************)
\* bound: the levels 0..MaxLevel are explored with every array
MaxLevel == 2
\* bound: heaps with room for 0..MaxFree nodes, and a heap with room for all
MaxFree == 2
\* the characters of the explored arrays: 'A'..'Z'
TreeChars == 65..90

\* the number of nodes of a tree of the given height
Full(level) == 2 ^ (level + 1) - 1

\* the arrays of n characters that run through the alphabet from some
\* letter on, as [A B C ...]: TreeCreate copies the characters without
\* looking at them, and in these every element is told from its neighbours
Alphabets(n) ==
    { [i \in 1..n |-> 65 + ((c - 65 + i - 1) % 26)] : c \in TreeChars }

\* arrays of 2^level - 1 elements (the documented length) and of
\* 2^(level+1) - 1 elements (one per node the call allocates)
TreeArrays(level) == Alphabets(2 ^ level - 1) \cup Alphabets(Full(level))

\* the arguments of the explored calls, with the call MorseInit makes
TreeCalls ==
    { [level |-> l, data |-> d] : l \in {MorseLevel}, d \in {MorseTable} }
    \cup UNION { { [level |-> l, data |-> d] : d \in TreeArrays(l) } : l \in 0..MaxLevel }

InitTree ==
    /\ InitEvents
    /\ InitDecode
    /\ \E c \in TreeCalls :
         /\ tLevel = c.level
         /\ tData = c.data
         /\ tFree \in (0..MaxFree) \cup {Full(c.level)}
         \* the byte behind the array matters only when it is read
         /\ tStray \in IF Len(c.data) < Full(c.level) THEN StrayChars ELSE {0}
    /\ tCalled = FALSE
    /\ tTree = NULL
    /\ tNodes = <<>>
    /\ tReads = {}
    /\ tFails = 0

CallTreeCreate ==
    /\ ~tCalled
    /\ LET t == TreeCreate(tLevel, tData, 0, Memory(tFree, tStray)) IN
         /\ tTree' = t.ptr
         /\ tNodes' = t.mem.nodes
         /\ tReads' = t.mem.reads
         /\ tFails' = t.mem.fails
    /\ tCalled' = TRUE
    /\ UNCHANGED <<tLevel, tData, tFree, tStray>>
    /\ UNCHANGED <<evars, dvars>>

NextTree == CallTreeCreate

SpecTree == InitTree /\ [][NextTree]_vars

Tick == \E f \in {"BUTTON_EVENT_NONE", "BUTTON_EVENT_4DOWN", "BUTTON_EVENT_4UP"} :
            MorseCheckEvents(f)

NextEvents == Tick

SpecEvents == Init /\ [][NextEvents]_vars

NextDecode == CallMorseInit \/ CallMorseDecode

SpecDecode == Init /\ [][NextDecode]_vars

\* the whole program; the detector and the decoder share no state, so the
\* claims are checked under SpecEvents, SpecDecode and SpecTree
Next == NextEvents \/ NextDecode \/ NextTree

Spec == Init /\ [][Next]_vars

(***************************************************************************)
(* Claims about MorseCheckEvents (checked under SpecEvents).               *)
(***************************************************************************)

\* C1: in state INTER_LETTER, a 4DOWN seen on a tick whose counter is at
\* least the letter gap (100) and below the word gap (200) returns
\* MORSE_EVENT_INTER_LETTER, moves to DOT and resets the counter.
C1_EndOfCharOnPress ==
    (/\ calls
     /\ Mprev = "INTER_LETTER"
     /\ first = "BUTTON_EVENT_4DOWN"
     /\ count >= MORSE_EVENT_LENGTH_UP_INTER_LETTER
     /\ count < MORSE_EVENT_LENGTH_UP_INTER_WORD)
    => (/\ event = "MORSE_EVENT_INTER_LETTER"
        /\ Mstate = "DOT"
        /\ increment = 0)

\* C2: MORSE_EVENT_INTER_WORD is returned only by a call that started in
\* INTER_LETTER with the release counter at or above the word gap (200).
C2_InterWordOnlyAtWordGap ==
    (calls /\ event = "MORSE_EVENT_INTER_WORD")
    => (/\ Mprev = "INTER_LETTER"
        /\ count >= MORSE_EVENT_LENGTH_UP_INTER_WORD)

dit == "MORSE_CHAR_DOT"
dah == "MORSE_CHAR_DASH"

\* International Morse code of the 36 alphanumeric characters, by ASCII code
InternationalMorse ==
    48 :> <<dah, dah, dah, dah, dah>> @@
    49 :> <<dit, dah, dah, dah, dah>> @@
    50 :> <<dit, dit, dah, dah, dah>> @@
    51 :> <<dit, dit, dit, dah, dah>> @@
    52 :> <<dit, dit, dit, dit, dah>> @@
    53 :> <<dit, dit, dit, dit, dit>> @@
    54 :> <<dah, dit, dit, dit, dit>> @@
    55 :> <<dah, dah, dit, dit, dit>> @@
    56 :> <<dah, dah, dah, dit, dit>> @@
    57 :> <<dah, dah, dah, dah, dit>> @@
    65 :> <<dit, dah>> @@
    66 :> <<dah, dit, dit, dit>> @@
    67 :> <<dah, dit, dah, dit>> @@
    68 :> <<dah, dit, dit>> @@
    69 :> <<dit>> @@
    70 :> <<dit, dit, dah, dit>> @@
    71 :> <<dah, dah, dit>> @@
    72 :> <<dit, dit, dit, dit>> @@
    73 :> <<dit, dit>> @@
    74 :> <<dit, dah, dah, dah>> @@
    75 :> <<dah, dit, dah>> @@
    76 :> <<dit, dah, dit, dit>> @@
    77 :> <<dah, dah>> @@
    78 :> <<dah, dit>> @@
    79 :> <<dah, dah, dah>> @@
    80 :> <<dit, dah, dah, dit>> @@
    81 :> <<dah, dah, dit, dah>> @@
    82 :> <<dit, dah, dit>> @@
    83 :> <<dit, dit, dit>> @@
    84 :> <<dah>> @@
    85 :> <<dit, dit, dah>> @@
    86 :> <<dit, dit, dit, dah>> @@
    87 :> <<dit, dah, dah>> @@
    88 :> <<dah, dit, dit, dah>> @@
    89 :> <<dah, dit, dah, dah>> @@
    90 :> <<dah, dah, dit, dit>>

Alnum == (48..57) \cup (65..90)

IsPrefix(p, q) == Len(p) <= Len(q) /\ SubSeq(q, 1, Len(p)) = p

\* C5: after MorseInit returned SUCCESS, every symbol of the Morse code of
\* an alphanumeric character c, fed from the root, returns SUCCESS and the
\* MORSE_CHAR_END_OF_CHAR after the last one returns c.
C5_DecodesAlnum ==
    (initRet = SUCCESS /\ last = "MorseDecode")
    => \A c \in Alnum :
          /\ (in \in {dit, dah} /\ IsPrefix(Append(pathOld, in), InternationalMorse[c]))
               => ret = SUCCESS
          /\ (in = "MORSE_CHAR_END_OF_CHAR" /\ pathOld = InternationalMorse[c])
               => ret = c

\* C6: MorseDecode with a value outside the MorseChar enum leaves the cursor
\* at the root and returns STANDARD_ERROR.
C6_InvalidResets ==
    (last = "MorseDecode" /\ in = "invalid")
    => (temp = chartree /\ ret = STANDARD_ERROR)

\* C7: when a malloc() of TreeCreate failed, TreeCreate returned NULL and
\* MorseInit returned STANDARD_ERROR; a non-NULL tree is complete.
C7_AllocFailureFailsInit ==
    last # "none"
    => /\ mallocFails > 0 => (chartree = NULL /\ initRet = STANDARD_ERROR)
       /\ chartree # NULL => Len(nodes) = 2 ^ (MorseLevel + 1) - 1

\* C8: MorseDecode with DOT (DASH) at a node without left (right) child
\* returns STANDARD_ERROR and keeps the cursor; otherwise it moves the
\* cursor to that child and returns SUCCESS.
C8_DotDash ==
    (last = "MorseDecode" /\ in \in {dit, dah} /\ IsNode(tempOld, nodes))
    => LET child == IF in = dit THEN nodes[tempOld].leftChild
                                ELSE nodes[tempOld].rightChild
       IN /\ ~fault
          /\ IF child = NULL
             THEN ret = STANDARD_ERROR /\ temp = tempOld
             ELSE ret = SUCCESS /\ temp = child

\* a DOT at a node below the root that has no left child was refused
C8_Witness ==
    /\ last = "MorseDecode"
    /\ in = dit
    /\ IsNode(tempOld, nodes)
    /\ tempOld # chartree
    /\ nodes[tempOld].leftChild = NULL
    /\ ret = STANDARD_ERROR
    /\ temp = tempOld

C10_UninitialisedFails ==
    (last = "MorseDecode" /\ chartree = NULL)
    => (~fault /\ ret = STANDARD_ERROR /\ temp = NULL)

(***************************************************************************)
(* Claims about TreeCreate (checked under SpecTree).                       *)
(***************************************************************************)

\* the characters of the tree at p, the node first, then its left subtree,
\* then its right subtree
RECURSIVE Preorder(_, _)
Preorder(p, heap) ==
    IF p = NULL THEN <<>>
    ELSE <<heap[p].data>> \o Preorder(heap[p].leftChild, heap)
                          \o Preorder(heap[p].rightChild, heap)

\* the tree at p as a value: <<>> for NULL, <<character, left, right>>
RECURSIVE Shape(_, _)
Shape(p, heap) ==
    IF p = NULL THEN <<>>
    ELSE <<heap[p].data, Shape(heap[p].leftChild, heap),
                         Shape(heap[p].rightChild, heap)>>

\* the tree of height h the recursive contract describes for the array
\* data from offset off: data[off] at the root, the left subtree built from
\* off + 1, the right subtree from off + 2^(h-1)
RECURSIVE Contract(_, _, _)
Contract(h, data, off) ==
    IF h = 0 THEN <<data[off + 1], <<>>, <<>>>>
    ELSE <<data[off + 1], Contract(h - 1, data, off + 1),
                          Contract(h - 1, data, off + 2 ^ (h - 1))>>

\* t is a perfect tree of height h
RECURSIVE Perfect(_, _)
Perfect(t, h) ==
    /\ t # <<>>
    /\ IF h = 0 THEN t[2] = <<>> /\ t[3] = <<>>
                ELSE Perfect(t[2], h - 1) /\ Perfect(t[3], h - 1)

\* C11: when no allocation fails, the tree TreeCreate(H, data) returns for
\* an array with one element per node serializes, top-down and left to
\* right, to data.
C11_SerializationIsData ==
    (tCalled /\ tFails = 0 /\ Len(tData) = Full(tLevel))
    => Preorder(tTree, tNodes) = tData

\* C12: TreeCreate(level, data) reads only the offsets 0 .. 2^level - 2 of
\* data.
C12_ReadsWithinDocumentedLength ==
    tCalled => tReads \subseteq 0..(2 ^ tLevel - 2)

C18_DecodingInjective ==
    (initRet = SUCCESS /\ mallocFails = 0 /\ last = "MorseDecode"
       /\ in = "MORSE_CHAR_END_OF_CHAR" /\ IsNode(tempOld, nodes) /\ ret # 0)
    => \A n \in 1..Len(nodes) : n # tempOld => nodes[n].data # ret

(***************************************************************************)
(* Further claims about MorseCheckEvents (checked under SpecEvents).       *)
(***************************************************************************)

\* C14: while the button stays released after a dot or a dash, an
\* end-of-character event is returned before any inter-word event.
C14_EndCharBeforeInterWord ==
    (/\ calls
     /\ relEvent \in {"MORSE_EVENT_DOT", "MORSE_EVENT_DASH"}
     /\ first = "BUTTON_EVENT_NONE"
     /\ event = "MORSE_EVENT_INTER_WORD")
    => letters >= 1

\* C15: in INTER_LETTER a press seen while the counter is below the letter
\* gap returns MORSE_EVENT_NONE, moves to DOT and resets the counter; no
\* event is returned between the symbol before that gap and the dot or dash
\* its release returns.
C15_ShortGapPress ==
    /\ (calls /\ Mprev = "INTER_LETTER" /\ first = "BUTTON_EVENT_4DOWN"
          /\ count < MORSE_EVENT_LENGTH_UP_INTER_LETTER)
         => (event = "MORSE_EVENT_NONE" /\ Mstate = "DOT" /\ increment = 0)
    /\ (calls /\ pressFrom = "INTER_LETTER"
          /\ pressCount < MORSE_EVENT_LENGTH_UP_INTER_LETTER)
         => /\ btn4Down => sinceUp = 0
            /\ first = "BUTTON_EVENT_4UP"
                 => event \in {"MORSE_EVENT_DOT", "MORSE_EVENT_DASH"}

\* a hold that began 99 ticks after the last release ends in a dot
C15_Witness ==
    /\ pressFrom = "INTER_LETTER"
    /\ pressCount = MORSE_EVENT_LENGTH_UP_INTER_LETTER - 1
    /\ first = "BUTTON_EVENT_4UP"
    /\ event = "MORSE_EVENT_DOT"

\* C17: every release of the button returns a dot or a dash on its tick.
C17_EveryReleaseEmits ==
    (calls /\ first = "BUTTON_EVENT_4UP")
    => event \in {"MORSE_EVENT_DOT", "MORSE_EVENT_DASH"}

\* C19 as stated: when a call ends in WAITING the counter is 0.
C19_WaitingCounterZero ==
    (calls /\ Mstate = "WAITING") => increment = 0

\* C19 as amended: a call that began in WAITING ends with counter 0; the
\* call that enters WAITING from INTER_LETTER returns the inter-word event
\* and leaves the counter at the value that reached the gap.
C19_WaitingCounter ==
    (calls /\ Mstate = "WAITING")
    => IF Mprev = "WAITING"
       THEN increment = 0
       ELSE /\ Mprev = "INTER_LETTER"
            /\ event = "MORSE_EVENT_INTER_WORD"
            /\ increment = count
            /\ increment > 0

\* the call that returned the inter-word event has ended in WAITING
C19_Witness ==
    /\ Mstate = "WAITING"
    /\ Mprev = "INTER_LETTER"
    /\ event = "MORSE_EVENT_INTER_WORD"
    /\ increment = count
    /\ increment > 0

====
